---- MODULE Spec2Model ----
(***************************************************************************)
(* A model of server/server.go of dex: the /callback header stripping,     *)
(* the connector registry (getConnector / OpenConnector), the key cacher   *)
(* (keyCacher.GetKeys) and the local password connector (passwordDB),      *)
(* with the key rotator and the /token grants (authorization_code and      *)
(* refresh_token) that the server starts and routes to.                    *)
(* Each component has its own specification over the shared variables.     *)
(***************************************************************************)
EXTENDS Naturals, Integers, Sequences, FiniteSets, TLC

VARIABLES
    \* ---- HTTP dispatch of one request (newServer's router) ----
    hPc,        \* "idle" | "strip" | "handler": position of the request
    hPath,      \* the route the request matched
    hHeader,    \* r.Header: header name -> set of values
    hOrig,      \* the header map the request arrived with (history)
    hTodo,      \* keys the range loop has still to visit
    \* ---- connector registry (Server.getConnector / Server.OpenConnector) ----
    store,      \* storage: connector id -> record, or NoRecord
    connectors, \* s.connectors: connector id -> Connector, or NoEntry
    mu,         \* s.mu: the thread holding it, or NoThread
    cpc,        \* per thread: position in getConnector / OpenConnector
    cvia,       \* per thread: "get" (getConnector) or "open" (OpenConnector called directly)
    cid,        \* per thread: the id argument
    csc,        \* per thread: storageConnector (the record the call works on), or NoRecord
    cconn,      \* per thread: conn, ok := s.connectors[id] (NoEntry when !ok)
    cnew,       \* per thread: the Connector value OpenConnector built
    cres,       \* per thread: what the call returned
    nextInst,   \* the next fresh connector instance
    ncalls,     \* calls started so far
    \* ---- local password connector (passwordDB) ----
    passwords,  \* storage: email -> Password record, or NoPassword
    lpc,        \* "idle" | "login_done"
    lin,        \* the arguments of the last Login call and the storage's mood
    lout,       \* what the last Login call returned
    \* ---- signing keys: storage, rotation, keyCacher ----
    now,        \* the clock read by now()
    skeys,      \* storage: the Keys row
    kcache,     \* keyCacher.keys: the Keys it points to, or NoKeys (nil)
    nextKid,    \* the id of the next key generated
    kpc,        \* per thread: position in keyCacher.GetKeys
    kuse,       \* per thread: what the caller wants the keys for ("sign" | "jwks")
    kread,      \* per thread: storageKeys, read at line 405
    kgood,      \* per thread: the time now() returned at line 410 was before storageKeys.NextRotation
    kret,       \* per thread: the Keys returned (NoKeys with an error)
    kerr,       \* per thread: GetKeys returned an error
    khit,       \* per thread: the result came from the cache
    ktk,        \* per thread: the time at which the keys returned were read
    token,      \* one ID token that was issued, or NoToken
    \* ---- /token, authorization_code grant ----
    authCodes,  \* storage: the ids of the AuthCodes it holds
    issued,     \* the AuthCode ids created so far (history)
    succ,       \* per AuthCode id: exchanges that succeeded (history)
    xpc,        \* per thread: position in the exchange
    xcode,      \* per thread: the code presented
    xres,       \* per thread: the answer ("ok" or the OAuth error)
    \* ---- /token, refresh_token grant ----
    rnow,       \* the clock
    refresh,    \* storage: refresh id -> RefreshToken record, or NoRefresh
    rdead,      \* per refresh id: the record a revocation deleted (history)
    rnextTok,   \* the next token value generated
    rpc,        \* "idle" | "r_done"
    rin,        \* the id and token the last call presented, and when
    rbefore,    \* the record that call found
    rout,       \* what that call answered
    \* ---- garbage collection worker (Server.startGarbageCollection) ----
    gctx,       \* the lifecycle context is cancelled (ctx.Done() is closed)
    gpc,        \* "select" | "collect" | "exited": position of the goroutine
    gtimer,     \* the channel of time.After(frequency) holds a value
    gruns,      \* GarbageCollect calls started (history, up to MaxRuns)
    gfails,     \* GarbageCollect calls that returned an error (history, up to MaxRuns)
    gafter,     \* the last call was started with the context already cancelled (history)
    glog,       \* what the worker logged for the last call
    \* ---- passwordDB.Refresh ----
    fpc,        \* "idle" | "refresh_done"
    fin,        \* the identity of the last Refresh call and the storage's mood
    frec,       \* the record storage held for that identity's email at the call (history)
    fout        \* what the last Refresh call returned

hdrVars == <<hPc, hPath, hHeader, hOrig, hTodo>>
connVars == <<store, connectors, mu, cpc, cvia, cid, csc, cconn, cnew, cres, nextInst, ncalls>>
loginVars == <<passwords, lpc, lin, lout>>
keyVars == <<now, skeys, kcache, nextKid, kpc, kuse, kread, kgood, kret, kerr, khit, ktk, token>>
tokVars == <<authCodes, issued, succ, xpc, xcode, xres>>
refVars == <<rnow, refresh, rdead, rnextTok, rpc, rin, rbefore, rout>>
gcwVars == <<gctx, gpc, gtimer, gruns, gfails, gafter, glog>>
pwrVars == <<fpc, fin, frec, fout>>
vars == <<hdrVars, connVars, loginVars, keyVars, tokVars, refVars, gcwVars, pwrVars>>

\* What the actions of one component leave unchanged.
notHdr == <<connVars, loginVars, keyVars, tokVars, refVars, gcwVars, pwrVars>>
notConn == <<hdrVars, loginVars, keyVars, tokVars, refVars, gcwVars, pwrVars>>
notLogin == <<hdrVars, connVars, keyVars, tokVars, refVars, gcwVars, pwrVars>>
notKeys == <<hdrVars, connVars, loginVars, tokVars, refVars, gcwVars, pwrVars>>
notTok == <<hdrVars, connVars, loginVars, keyVars, refVars, gcwVars, pwrVars>>
notRef == <<hdrVars, connVars, loginVars, keyVars, tokVars, gcwVars, pwrVars>>
notGcw == <<hdrVars, connVars, loginVars, keyVars, tokVars, refVars, pwrVars>>
notPwr == <<hdrVars, connVars, loginVars, keyVars, tokVars, refVars, gcwVars>>

(***************************************************************************)
(*                          Connector registry                             *)
(***************************************************************************)

MaxEvents == 4      \* storage writes plus getConnector / OpenConnector calls in a run

Threads == {"t1", "t2"}
NoThread == "none"
ConnIds == {"c1", "c2"}
NoRecord == [rv |-> 0, typ |-> "", cfg |-> ""]
NoEntry == [rv |-> 0, inst |-> 0]
NoResult == [ok |-> FALSE, err |-> "", conn |-> NoEntry]

\* LocalConnector
LocalConnector == "local"

\* The keys of ConnectorsConfig that the model uses (one is enough: every
\* factory is handled alike).
ConnectorsConfig == {"mockCallback"}

\* The (type, config) pairs a storage record may hold: the local connector, a
\* connector that opens, one whose config is no valid JSON for its type, one
\* whose Open returns an error, one of an unknown type.
RecordKinds ==
    { [typ |-> "local",        cfg |-> "empty"],
      [typ |-> "mockCallback", cfg |-> "ok"],
      [typ |-> "mockCallback", cfg |-> "malformed"],
      [typ |-> "mockCallback", cfg |-> "openerr"],
      [typ |-> "bogus",        cfg |-> "ok"] }

\* openConnector with the error of the factory's Open dropped.
openConnectorIgnoringOpenError(conn) ==
    IF conn.typ \notin ConnectorsConfig THEN "unknown connector type"
    ELSE IF conn.cfg # "empty" /\ conn.cfg = "malformed" THEN "parse connector config"
    ELSE ""

\* openConnector: "" when it returns a connector, else the error.
openConnector(conn) ==
    IF conn.typ \notin ConnectorsConfig THEN "unknown connector type"
    ELSE IF conn.cfg # "empty" /\ conn.cfg = "malformed" THEN "parse connector config"
    ELSE IF conn.cfg = "openerr" THEN "failed to create connector"
    ELSE ""

\* The first part of OpenConnector (lines 485-495): "" when a connector c was
\* obtained, else the error returned.
OpenError(conn) ==
    IF conn.typ = LocalConnector THEN "" ELSE openConnector(conn)

\* The instance OpenConnector obtains: newPasswordDB(s.storage) is the value
\* passwordDB{s.storage} (instance 0, the same value every time); a factory's
\* Open returns a new object.
OpenedInstance(conn, fresh) ==
    IF conn.typ = LocalConnector THEN 0 ELSE fresh

\* The test of line 522 looking at the presence of the entry only.
NeedOpenIgnoringVersion(ok, storageConnector, conn) == ~ok

\* The test of line 522.
NeedOpen(ok, storageConnector, conn) ==
    ~ok \/ storageConnector.rv # conn.rv

\* The same test answering that the record must be opened every time.
NeedOpenAlways(ok, storageConnector, conn) == TRUE

\* Line 522 as the model uses it.
MustOpen(ok, storageConnector, conn) == NeedOpen(ok, storageConnector, conn)

\* The map after s.connectors[conn.ID] = connector.
MapStore(m, id, connector) == [m EXCEPT ![id] = connector]

\* The state of a thread that is in no call.
ConnIdle ==
    /\ store = [i \in ConnIds |->
                  IF i = "c1" THEN [rv |-> 1, typ |-> "mockCallback", cfg |-> "ok"]
                  ELSE NoRecord]
    /\ connectors = [i \in ConnIds |-> IF i = "c1" THEN [rv |-> 1, inst |-> 1] ELSE NoEntry]
    /\ mu = NoThread
    /\ cpc = [t \in Threads |-> "idle"]
    /\ cvia = [t \in Threads |-> "get"]
    /\ cid = [t \in Threads |-> "c1"]
    /\ csc = [t \in Threads |-> NoRecord]
    /\ cconn = [t \in Threads |-> NoEntry]
    /\ cnew = [t \in Threads |-> NoEntry]
    /\ cres = [t \in Threads |-> NoResult]
    /\ nextInst = 2
    /\ ncalls = 0

\* The number of writes that led to the storage records st.
RECURSIVE SumVersions(_, _)
SumVersions(st, ids) ==
    IF ids = {} THEN 0
    ELSE LET i == CHOOSE x \in ids : TRUE
         IN  st[i].rv + SumVersions(st, ids \ {i})

\* Storage writes made and calls started so far.
Events(st, calls) == (SumVersions(st, ConnIds) - 1) + calls

\* A return path that leaves the mutex locked.
UnlockForgotten(holder, t) == holder

\* s.mu.Unlock() by thread t.
Unlock(holder, t) == IF holder = t THEN NoThread ELSE holder

\* Storage: a connector record is created (resource version 1) or updated
\* (the resource version changes) by an administrator.
StorageUpdate ==
    /\ \E i \in ConnIds, k \in RecordKinds :
         /\ Events(store, ncalls) < MaxEvents
         /\ store' = [store EXCEPT ![i] = [rv |-> store[i].rv + 1, typ |-> k.typ, cfg |-> k.cfg]]
    /\ UNCHANGED <<connectors, mu, cpc, cvia, cid, csc, cconn, cnew, cres, nextInst, ncalls>>
    /\ UNCHANGED notConn

\* A handler calls s.getConnector(id).
GetConnectorCall ==
    /\ Events(store, ncalls) < MaxEvents
    /\ \E t \in Threads, i \in ConnIds :
         /\ cpc[t] = "idle"
         /\ cpc' = [cpc EXCEPT ![t] = "gc_get"]
         /\ cvia' = [cvia EXCEPT ![t] = "get"]
         /\ cid' = [cid EXCEPT ![t] = i]
    /\ ncalls' = ncalls + 1
    /\ UNCHANGED <<store, connectors, mu, csc, cconn, cnew, cres, nextInst>>
    /\ UNCHANGED notConn

\* s.OpenConnector(conn) is called directly with a record listed from storage
\* (as newServer does for every record of ListConnectors).
OpenConnectorCall ==
    /\ Events(store, ncalls) < MaxEvents
    /\ \E t \in Threads, i \in ConnIds :
         /\ cpc[t] = "idle"
         /\ store[i] # NoRecord
         /\ cpc' = [cpc EXCEPT ![t] = "oc_open"]
         /\ cvia' = [cvia EXCEPT ![t] = "open"]
         /\ cid' = [cid EXCEPT ![t] = i]
         /\ csc' = [csc EXCEPT ![t] = store[i]]
    /\ ncalls' = ncalls + 1
    /\ UNCHANGED <<store, connectors, mu, cconn, cnew, cres, nextInst>>
    /\ UNCHANGED notConn

\* Lines 511-514: storage.GetConnector(id); an absent record, or a storage
\* that cannot be reached, is an error and the call returns.
GcStorageGet ==
    /\ \E t \in Threads :
         /\ cpc[t] = "gc_get"
         /\ \/ /\ store[cid[t]] # NoRecord
               /\ csc' = [csc EXCEPT ![t] = store[cid[t]]]
               /\ cpc' = [cpc EXCEPT ![t] = "gc_lock"]
               /\ cres' = cres
            \/ /\ csc' = [csc EXCEPT ![t] = NoRecord]
               /\ cpc' = [cpc EXCEPT ![t] = "done"]
               /\ cres' = [cres EXCEPT ![t] =
                    [ok |-> FALSE, err |-> "failed to get connector object from storage",
                     conn |-> NoEntry]]
    /\ UNCHANGED <<store, connectors, mu, cvia, cid, cconn, cnew, nextInst, ncalls>>
    /\ UNCHANGED notConn

\* Lines 518-519: s.mu.Lock(); conn, ok = s.connectors[id]. The thread
\* blocks until the mutex is free; the map read follows with the mutex held.
GcLockRead ==
    /\ \E t \in Threads :
         /\ cpc[t] = "gc_lock"
         /\ mu = NoThread
         /\ mu' = t
         /\ cconn' = [cconn EXCEPT ![t] = connectors[cid[t]]]
         /\ cpc' = [cpc EXCEPT ![t] = "gc_unlock"]
    /\ UNCHANGED <<store, connectors, cvia, cid, csc, cnew, cres, nextInst, ncalls>>
    /\ UNCHANGED notConn

\* Line 520: s.mu.Unlock()
GcUnlock ==
    /\ \E t \in Threads :
         /\ cpc[t] = "gc_unlock"
         /\ mu' = Unlock(mu, t)
         /\ cpc' = [cpc EXCEPT ![t] = "gc_check"]
    /\ UNCHANGED <<store, connectors, cvia, cid, csc, cconn, cnew, cres, nextInst, ncalls>>
    /\ UNCHANGED notConn

\* Lines 522-532: open the storage record when the map has no entry or its
\* resource version differs, else return the entry read from the map.
GcCheck ==
    /\ \E t \in Threads :
         /\ cpc[t] = "gc_check"
         /\ IF MustOpen(cconn[t] # NoEntry, csc[t], cconn[t])
            THEN /\ cpc' = [cpc EXCEPT ![t] = "oc_open"]
                 /\ cres' = cres
            ELSE /\ cpc' = [cpc EXCEPT ![t] = "done"]
                 /\ cres' = [cres EXCEPT ![t] = [ok |-> TRUE, err |-> "", conn |-> cconn[t]]]
    /\ UNCHANGED <<store, connectors, mu, cvia, cid, csc, cconn, cnew, nextInst, ncalls>>
    /\ UNCHANGED notConn

\* Lines 485-500 of OpenConnector: obtain the connector (newPasswordDB or
\* openConnector) and build the Connector value, or return the error.
OcOpen ==
    /\ \E t \in Threads :
         /\ cpc[t] = "oc_open"
         /\ IF OpenError(csc[t]) = ""
            THEN /\ cnew' = [cnew EXCEPT ![t] =
                       [rv |-> csc[t].rv, inst |-> OpenedInstance(csc[t], nextInst)]]
                 /\ nextInst' = IF csc[t].typ = LocalConnector THEN nextInst ELSE nextInst + 1
                 /\ cpc' = [cpc EXCEPT ![t] = "oc_lock"]
                 /\ cres' = cres
            ELSE /\ cres' = [cres EXCEPT ![t] =
                       [ok |-> FALSE, err |-> "failed to open connector", conn |-> NoEntry]]
                 /\ cpc' = [cpc EXCEPT ![t] = "done"]
                 /\ UNCHANGED <<cnew, nextInst>>
    /\ UNCHANGED <<store, connectors, mu, cvia, cid, csc, cconn, ncalls>>
    /\ UNCHANGED notConn

\* Lines 501-502: s.mu.Lock(); s.connectors[conn.ID] = connector. The thread
\* blocks until the mutex is free; the map write follows with the mutex held.
OcLockWrite ==
    /\ \E t \in Threads :
         /\ cpc[t] = "oc_lock"
         /\ mu = NoThread
         /\ mu' = t
         /\ connectors' = MapStore(connectors, cid[t], cnew[t])
         /\ cpc' = [cpc EXCEPT ![t] = "oc_unlock"]
    /\ UNCHANGED <<store, cvia, cid, csc, cconn, cnew, cres, nextInst, ncalls>>
    /\ UNCHANGED notConn

\* Lines 503-505: s.mu.Unlock(); return connector, nil
OcUnlock ==
    /\ \E t \in Threads :
         /\ cpc[t] = "oc_unlock"
         /\ mu' = Unlock(mu, t)
         /\ cres' = [cres EXCEPT ![t] = [ok |-> TRUE, err |-> "", conn |-> cnew[t]]]
         /\ cpc' = [cpc EXCEPT ![t] = "done"]
    /\ UNCHANGED <<store, connectors, cvia, cid, csc, cconn, cnew, nextInst, ncalls>>
    /\ UNCHANGED notConn

\* The caller has taken the result; the thread is free for another call.
CallReturn ==
    /\ \E t \in Threads :
         /\ cpc[t] = "done"
         /\ cpc' = [cpc EXCEPT ![t] = "idle"]
         /\ cvia' = [cvia EXCEPT ![t] = "get"]
         /\ cid' = [cid EXCEPT ![t] = "c1"]
         /\ csc' = [csc EXCEPT ![t] = NoRecord]
         /\ cconn' = [cconn EXCEPT ![t] = NoEntry]
         /\ cnew' = [cnew EXCEPT ![t] = NoEntry]
         /\ cres' = [cres EXCEPT ![t] = NoResult]
    /\ UNCHANGED <<store, connectors, mu, nextInst, ncalls>>
    /\ UNCHANGED notConn

ConnNext ==
    \/ StorageUpdate \/ GetConnectorCall \/ OpenConnectorCall
    \/ GcStorageGet \/ GcLockRead \/ GcUnlock \/ GcCheck
    \/ OcOpen \/ OcLockWrite \/ OcUnlock \/ CallReturn

(***************************************************************************)
(*                       HTTP dispatch: /callback                          *)
(***************************************************************************)

\* Header names are sequences of one-character strings, so that
\* strings.ToLower, strings.HasPrefix and the canonicalisation done by
\* http.Header.Del are computed character by character.
LetterPairs ==
    { <<"x","X">>, <<"r","R">>, <<"e","E">>, <<"m","M">>, <<"o","O">>,
      <<"t","T">>, <<"u","U">>, <<"g","G">>, <<"c","C">>, <<"k","K">>,
      <<"i","I">>, <<"s","S">> }

IsUpper(c) == \E p \in LetterPairs : p[2] = c
IsLower(c) == \E p \in LetterPairs : p[1] = c
lowerRune(c) == IF IsUpper(c) THEN (CHOOSE p \in LetterPairs : p[2] = c)[1] ELSE c
upperRune(c) == IF IsLower(c) THEN (CHOOSE p \in LetterPairs : p[1] = c)[2] ELSE c

\* strings.ToLower
ToLower(s) == [i \in 1..Len(s) |-> lowerRune(s[i])]

\* strings.HasPrefix
HasPrefix(s, prefix) ==
    /\ Len(s) >= Len(prefix)
    /\ SubSeq(s, 1, Len(prefix)) = prefix

\* A byte that may appear in a header field name (a token character).
validHeaderFieldByte(c) == IsUpper(c) \/ IsLower(c) \/ c = "-"

\* textproto.CanonicalMIMEHeaderKey, which http.Header.Del applies to its
\* argument: the first letter and every letter after a hyphen upper-cased, the
\* rest lower-cased; a name holding a byte that is no token character is
\* returned unchanged.
CanonicalMIMEHeaderKey(s) ==
    IF \E i \in 1..Len(s) : ~validHeaderFieldByte(s[i])
    THEN s
    ELSE [i \in 1..Len(s) |->
            IF i = 1 \/ s[i-1] = "-" THEN upperRune(s[i]) ELSE lowerRune(s[i])]

\* The literal "x-remote-" of the handler.
XRemotePrefix == <<"x","-","r","e","m","o","t","e","-">>

\* The test of the handler's if statement.
IsRemoteKey(key) == HasPrefix(ToLower(key), XRemotePrefix)

\* The same test without the lower-casing (what a case-sensitive comparison
\* would do).
IsRemoteKeyCaseSensitive(key) == HasPrefix(key, XRemotePrefix)

\* The condition under which the handler deletes the key it visits.
StripCondition(key) == IsRemoteKey(key)

\* http.Header.Del(key): deletes the entry of the canonical form of key.
HeaderDel(h, key) ==
    [k \in (DOMAIN h) \ {CanonicalMIMEHeaderKey(key)} |-> h[k]]

\* Header field names as they may be written on the wire.
WireNames ==
    { <<"x","-","r","e","m","o","t","e","-","u">>,        \* x-remote-u
      <<"X","-","R","E","M","O","T","E","-","G">>,        \* X-REMOTE-G
      <<"X","-","R","e","m","o","t","e">>,                \* X-Remote
      <<"c","o","o","k","i","e">>,                        \* cookie
      <<"x","-","r","e","m","o","t","e","-"," ","u">> }   \* x-remote- u

HeaderValues == {"v1", "v2"}

\* The routes registered by newServer that matter here.
Routes == {"/callback", "/callback/{connector}", "/auth"}

\* The header map net/http hands to the handler for a request whose wire
\* header fields are wire (name -> value): names are canonicalised as they are
\* read, and fields with the same canonical name are merged.
ReadHeader(wire) ==
    LET keys == { CanonicalMIMEHeaderKey(w) : w \in DOMAIN wire }
    IN  [k \in keys |->
            { wire[w] : w \in { v \in DOMAIN wire : CanonicalMIMEHeaderKey(v) = k } }]

HdrInit ==
    /\ hPc = "idle"
    /\ hPath = "/auth"
    /\ hHeader = << >>
    /\ hOrig = << >>
    /\ hTodo = {}

\* Server.ServeHTTP: a request arrives and the router picks its handler.
ServeHTTP ==
    /\ hPc = "idle"
    /\ \E p \in Routes, names \in SUBSET WireNames :
         \E wire \in [names -> HeaderValues] :
            LET h == ReadHeader(wire) IN
            /\ hPath' = p
            /\ hHeader' = h
            /\ hOrig' = h
            /\ hTodo' = IF p = "/callback" THEN DOMAIN h ELSE {}
            /\ hPc' = IF p = "/callback" THEN "strip" ELSE "handler"
    /\ UNCHANGED notHdr

\* One iteration of `for key := range r.Header` in the /callback closure. Go
\* visits the keys in an unspecified order and does not visit a key deleted
\* before it is reached.
StripHeader ==
    /\ hPc = "strip"
    /\ \E key \in hTodo \cap DOMAIN hHeader :
         /\ hHeader' = IF StripCondition(key) THEN HeaderDel(hHeader, key) ELSE hHeader
         /\ hTodo' = hTodo \ {key}
    /\ UNCHANGED <<hPc, hPath, hOrig>>
    /\ UNCHANGED notHdr

\* The range loop is over: s.handleConnectorCallback(w, r) is invoked.
CallbackInvoke ==
    /\ hPc = "strip"
    /\ hTodo \cap DOMAIN hHeader = {}
    /\ hPc' = "handler"
    /\ hTodo' = {}
    /\ UNCHANGED <<hPath, hHeader, hOrig>>
    /\ UNCHANGED notHdr

\* The handler returns and the request is dropped; the next one may arrive.
HandlerReturn ==
    /\ hPc = "handler"
    /\ hPc' = "idle"
    /\ hPath' = "/auth"
    /\ hHeader' = << >>
    /\ hOrig' = << >>
    /\ hTodo' = {}
    /\ UNCHANGED notHdr

HdrNext == ServeHTTP \/ StripHeader \/ CallbackInvoke \/ HandlerReturn

(***************************************************************************)
(*                    Local password connector: passwordDB                 *)
(***************************************************************************)

\* The bounds of checkCost (bcrypt.MinCost and the server's upper bound).
MinCost == 4
MaxCost == 16

Emails == {"a@b.c", "x@y.z"}
Secrets == {"hunter2", "letmein"}
Costs == {3, 4, 10, 16, 17}
UserIDs == {"u1", "u2"}
Usernames == {"ann"}

NoPassword == [email |-> "", hash |-> [cost |-> 0, secret |-> ""], username |-> "", userID |-> ""]

\* The Password records storage may hold for an email.
PasswordRecords(e) ==
    { [email |-> e, hash |-> [cost |-> c, secret |-> x], username |-> n, userID |-> u] :
        c \in Costs, x \in Secrets, n \in Usernames, u \in UserIDs }

\* connector.Identity{}
EmptyIdentity == [userID |-> "", username |-> "", email |-> "", emailVerified |-> FALSE]

\* storage.GetPassword(email): the record, storage.ErrNotFound, or another
\* error when the backend fails.
GetPassword(st, email, backendFails) ==
    IF backendFails THEN [err |-> "backend", p |-> NoPassword]
    ELSE IF st[email] = NoPassword THEN [err |-> "ErrNotFound", p |-> NoPassword]
    ELSE [err |-> "", p |-> st[email]]

\* checkCost(hash): "" when the bcrypt cost of the hash is acceptable.
checkCost(hash) ==
    IF hash.cost < MinCost THEN "hash cost below minimum"
    ELSE IF hash.cost > MaxCost THEN "hash cost above maximum"
    ELSE ""

\* bcrypt.CompareHashAndPassword(hash, password) = nil
CompareHashAndPassword(hash, password) == hash.secret = password

\* passwordDB.Login with the comparison made before the cost check.
LoginCompareFirst(got, password) ==
    IF got.err # ""
    THEN IF got.err # "ErrNotFound"
         THEN [identity |-> EmptyIdentity, ok |-> FALSE, err |-> "get password"]
         ELSE [identity |-> EmptyIdentity, ok |-> FALSE, err |-> ""]
    ELSE IF ~CompareHashAndPassword(got.p.hash, password)
    THEN [identity |-> EmptyIdentity, ok |-> FALSE, err |-> ""]
    ELSE IF checkCost(got.p.hash) # ""
    THEN [identity |-> EmptyIdentity, ok |-> FALSE, err |-> checkCost(got.p.hash)]
    ELSE [identity |-> [userID |-> got.p.userID, username |-> got.p.username,
                        email |-> got.p.email, emailVerified |-> TRUE],
          ok |-> TRUE, err |-> ""]

\* passwordDB.Login with storage.ErrNotFound treated like any other error.
LoginReportingNotFound(got, password) ==
    IF got.err # ""
    THEN [identity |-> EmptyIdentity, ok |-> FALSE, err |-> "get password"]
    ELSE IF checkCost(got.p.hash) # ""
    THEN [identity |-> EmptyIdentity, ok |-> FALSE, err |-> checkCost(got.p.hash)]
    ELSE IF ~CompareHashAndPassword(got.p.hash, password)
    THEN [identity |-> EmptyIdentity, ok |-> FALSE, err |-> ""]
    ELSE [identity |-> [userID |-> got.p.userID, username |-> got.p.username,
                        email |-> got.p.email, emailVerified |-> TRUE],
          ok |-> TRUE, err |-> ""]

\* passwordDB.Login, given the result got of db.s.GetPassword(email).
Login(got, password) ==
    IF got.err # ""
    THEN IF got.err # "ErrNotFound"
         THEN [identity |-> EmptyIdentity, ok |-> FALSE, err |-> "get password"]
         ELSE [identity |-> EmptyIdentity, ok |-> FALSE, err |-> ""]
    ELSE IF checkCost(got.p.hash) # ""
    THEN [identity |-> EmptyIdentity, ok |-> FALSE, err |-> checkCost(got.p.hash)]
    ELSE IF ~CompareHashAndPassword(got.p.hash, password)
    THEN [identity |-> EmptyIdentity, ok |-> FALSE, err |-> ""]
    ELSE [identity |-> [userID |-> got.p.userID, username |-> got.p.username,
                        email |-> got.p.email, emailVerified |-> TRUE],
          ok |-> TRUE, err |-> ""]

NoLoginInput == [email |-> "", password |-> "", backendFails |-> FALSE]
NoLoginOutput == [identity |-> EmptyIdentity, ok |-> FALSE, err |-> ""]

LoginIdle ==
    /\ passwords = [e \in Emails |-> NoPassword]
    /\ lpc = "idle"
    /\ lin = NoLoginInput
    /\ lout = NoLoginOutput

\* Storage: a password record is created, replaced or deleted (static
\* passwords of the configuration, or the API).
PasswordWrite ==
    /\ lpc = "idle"
    /\ \E e \in Emails :
         \E r \in PasswordRecords(e) \cup {NoPassword} :
            passwords' = [passwords EXCEPT ![e] = r]
    /\ UNCHANGED <<lpc, lin, lout>>
    /\ UNCHANGED notLogin

\* A caller runs passwordDB.Login(ctx, scopes, email, password).
LoginCall ==
    /\ lpc = "idle"
    /\ \E e \in Emails, pw \in Secrets, fails \in BOOLEAN :
         /\ lin' = [email |-> e, password |-> pw, backendFails |-> fails]
         /\ lout' = Login(GetPassword(passwords, e, fails), pw)
    /\ lpc' = "login_done"
    /\ UNCHANGED passwords
    /\ UNCHANGED notLogin

\* The caller has taken the result.
LoginReturn ==
    /\ lpc = "login_done"
    /\ lpc' = "idle"
    /\ lin' = NoLoginInput
    /\ lout' = NoLoginOutput
    /\ UNCHANGED passwords
    /\ UNCHANGED notLogin

LoginNext == PasswordWrite \/ LoginCall \/ LoginReturn

(***************************************************************************)
(*                 Signing keys: rotation and the key cacher               *)
(***************************************************************************)

MaxTime == 3            \* the clock runs from 0 to MaxTime

\* Config.RotateKeysAfter and Config.IDTokensValidFor, in clock ticks.
RotateKeysAfter == 1
IDTokensValidFor == 2

NoKeys == [signing |-> 0, verif |-> {}, nextRotation |-> 0]
NoToken == [kid |-> 0, t |-> 0, e |-> 0, tk |-> 0]

\* The ids of the public keys a Keys value holds (what /keys serialises).
Kids(keys) == {keys.signing} \cup { v.kid : v \in keys.verif }

\* The rotation the key rotator commits at time tNow (the spec's rotation
\* algorithm, steps 3 to 6): a new signing key, the outgoing one demoted with
\* expiry tNow + id_tokens_valid_for, entries with expiry <= tNow dropped.
Rotated(keys, tNow, newKid) ==
    [signing |-> newKid,
     verif |-> { v \in keys.verif \cup
                        {[kid |-> keys.signing, expiry |-> tNow + IDTokensValidFor]} :
                 ~(v.expiry <= tNow) },
     nextRotation |-> tNow + RotateKeysAfter]

\* Line 401 without the comparison with NextRotation: any remembered Keys
\* are reused.
CacheHitAlways(keys, tNow) == keys # NoKeys

\* Line 401: ok && keys != nil && k.now().Before(keys.NextRotation)
CacheHit(keys, tNow) == keys # NoKeys /\ tNow < keys.nextRotation

\* Line 410 without the comparison: whatever was read is remembered.
CacheableAlways(storageKeys, tNow) == TRUE

\* Line 410: k.now().Before(storageKeys.NextRotation)
Cacheable(storageKeys, tNow) == tNow < storageKeys.nextRotation

KeysIdle ==
    /\ now = 0
    /\ skeys = [signing |-> 1, verif |-> {}, nextRotation |-> RotateKeysAfter]
    /\ kcache = NoKeys
    /\ nextKid = 2
    /\ kpc = [t \in Threads |-> "idle"]
    /\ kuse = [t \in Threads |-> "jwks"]
    /\ kread = [t \in Threads |-> NoKeys]
    /\ kgood = [t \in Threads |-> FALSE]
    /\ kret = [t \in Threads |-> NoKeys]
    /\ kerr = [t \in Threads |-> FALSE]
    /\ khit = [t \in Threads |-> FALSE]
    /\ ktk = [t \in Threads |-> 0]
    /\ token = NoToken

\* Time passes.
Tick ==
    /\ now < MaxTime
    /\ now' = now + 1
    /\ UNCHANGED <<skeys, kcache, nextKid, kpc, kuse, kread, kgood, kret, kerr, khit, ktk, token>>
    /\ UNCHANGED notKeys

\* The key rotator (started by s.startKeyRotation) commits a rotation; it
\* does so only when now >= next_rotation, and writes to storage directly.
Rotate ==
    /\ now >= skeys.nextRotation
    /\ skeys' = Rotated(skeys, now, nextKid)
    /\ nextKid' = nextKid + 1
    /\ UNCHANGED <<now, kcache, kpc, kuse, kread, kgood, kret, kerr, khit, ktk, token>>
    /\ UNCHANGED notKeys

\* A handler calls s.storage.GetKeys(), to sign a token or to serve /keys.
GetKeysCall ==
    /\ \E t \in Threads, u \in {"sign", "jwks"} :
         /\ kpc[t] = "idle"
         /\ kpc' = [kpc EXCEPT ![t] = "k_load"]
         /\ kuse' = [kuse EXCEPT ![t] = u]
    /\ UNCHANGED <<now, skeys, kcache, nextKid, kread, kgood, kret, kerr, khit, ktk, token>>
    /\ UNCHANGED notKeys

\* Lines 400-403: load the remembered Keys; return them when there are some
\* and now() is before their NextRotation.
KLoad ==
    /\ \E t \in Threads :
         /\ kpc[t] = "k_load"
         /\ IF CacheHit(kcache, now)
            THEN /\ kret' = [kret EXCEPT ![t] = kcache]
                 /\ khit' = [khit EXCEPT ![t] = TRUE]
                 /\ ktk' = [ktk EXCEPT ![t] = now]
                 /\ kpc' = [kpc EXCEPT ![t] = "k_ret"]
            ELSE /\ kpc' = [kpc EXCEPT ![t] = "k_storage"]
                 /\ UNCHANGED <<kret, khit, ktk>>
    /\ UNCHANGED <<now, skeys, kcache, nextKid, kuse, kread, kgood, kerr, token>>
    /\ UNCHANGED notKeys

\* Line 407 returning the remembered Keys instead of the failed read's value.
GetKeysFailedFallback(cached) == cached

\* Line 407: return storageKeys, err. The value handed back with the error is
\* what the failed storage read produced (no Keys), whatever is remembered.
GetKeysFailed(cached) == NoKeys

\* Lines 405-408: k.Storage.GetKeys(); an error is returned as it is.
KStorage ==
    /\ \E t \in Threads :
         /\ kpc[t] = "k_storage"
         /\ \/ /\ kread' = [kread EXCEPT ![t] = skeys]
               /\ ktk' = [ktk EXCEPT ![t] = now]
               /\ kpc' = [kpc EXCEPT ![t] = "k_check"]
               /\ UNCHANGED <<kerr, kret>>
            \/ /\ kerr' = [kerr EXCEPT ![t] = TRUE]
               /\ kret' = [kret EXCEPT ![t] = GetKeysFailed(kcache)]
               /\ kpc' = [kpc EXCEPT ![t] = "k_ret"]
               /\ UNCHANGED <<kread, ktk>>
    /\ UNCHANGED <<now, skeys, kcache, nextKid, kuse, kgood, khit, token>>
    /\ UNCHANGED notKeys

\* Line 410: k.now().Before(storageKeys.NextRotation)
KCheck ==
    /\ \E t \in Threads :
         /\ kpc[t] = "k_check"
         /\ kgood' = [kgood EXCEPT ![t] = Cacheable(kread[t], now)]
         /\ kpc' = [kpc EXCEPT ![t] = "k_store"]
    /\ UNCHANGED <<now, skeys, kcache, nextKid, kuse, kread, kret, kerr, khit, ktk, token>>
    /\ UNCHANGED notKeys

\* Lines 411-413: k.keys.Store(&storageKeys) when the test of line 410
\* passed; return storageKeys.
KStore ==
    /\ \E t \in Threads :
         /\ kpc[t] = "k_store"
         /\ kcache' = IF kgood[t] THEN kread[t] ELSE kcache
         /\ kret' = [kret EXCEPT ![t] = kread[t]]
         /\ kpc' = [kpc EXCEPT ![t] = "k_ret"]
    /\ UNCHANGED <<now, skeys, nextKid, kuse, kread, kgood, kerr, khit, ktk, token>>
    /\ UNCHANGED notKeys

\* The caller uses the result: a signer signs an ID token with the signing
\* key it was given, issued now and valid for id_tokens_valid_for (one issued
\* token is kept); /keys answers. The thread is then free.
KUse ==
    /\ \E t \in Threads :
         /\ kpc[t] = "k_ret"
         /\ \/ token' = token
            \/ /\ kuse[t] = "sign"
               /\ ~kerr[t]
               /\ token = NoToken
               /\ token' = [kid |-> kret[t].signing, t |-> now,
                            e |-> now + IDTokensValidFor, tk |-> ktk[t]]
         /\ kpc' = [kpc EXCEPT ![t] = "idle"]
         /\ kuse' = [kuse EXCEPT ![t] = "jwks"]
         /\ kread' = [kread EXCEPT ![t] = NoKeys]
         /\ kgood' = [kgood EXCEPT ![t] = FALSE]
         /\ kret' = [kret EXCEPT ![t] = NoKeys]
         /\ kerr' = [kerr EXCEPT ![t] = FALSE]
         /\ khit' = [khit EXCEPT ![t] = FALSE]
         /\ ktk' = [ktk EXCEPT ![t] = 0]
    /\ UNCHANGED <<now, skeys, kcache, nextKid>>
    /\ UNCHANGED notKeys

KeysNext ==
    \/ Tick \/ Rotate \/ GetKeysCall \/ KLoad \/ KStorage \/ KCheck \/ KStore \/ KUse

(***************************************************************************)
(*        /token, authorization_code grant: redeeming an AuthCode          *)
(***************************************************************************)

CodeIds == {"a1", "a2"}
NoCode == "none"

\* Storage hands out the AuthCode without deleting it.
FetchWithoutDelete(st, c) == [found |-> c \in st, codes |-> st]

\* "Fetch and atomically delete the AuthCode": one storage operation that
\* says whether the code was there and leaves storage without it.
FetchAndDelete(st, c) == [found |-> c \in st, codes |-> st \ {c}]

TokIdle ==
    /\ authCodes = {}
    /\ issued = {}
    /\ succ = [c \in CodeIds |-> 0]
    /\ xpc = [t \in Threads |-> "idle"]
    /\ xcode = [t \in Threads |-> NoCode]
    /\ xres = [t \in Threads |-> ""]

\* Approval: an AuthCode with a fresh random id is stored and sent to the
\* client in the redirect.
Approve ==
    /\ \E c \in CodeIds \ issued :
         /\ authCodes' = authCodes \cup {c}
         /\ issued' = issued \cup {c}
    /\ UNCHANGED <<succ, xpc, xcode, xres>>
    /\ UNCHANGED notTok

\* Lines 416-432: the garbage collector's storage.GarbageCollect(now) removes
\* an AuthCode whose expiry has passed.
GarbageCollect ==
    /\ \E c \in authCodes : authCodes' = authCodes \ {c}
    /\ UNCHANGED <<issued, succ, xpc, xcode, xres>>
    /\ UNCHANGED notTok

\* A client, authenticated, posts grant_type=authorization_code with a code
\* it was sent (line 275 routes the request to s.handleToken).
TokenCall ==
    /\ \E t \in Threads, c \in issued :
         /\ xpc[t] = "idle"
         /\ xpc' = [xpc EXCEPT ![t] = "x_fetch"]
         /\ xcode' = [xcode EXCEPT ![t] = c]
    /\ UNCHANGED <<authCodes, issued, succ, xres>>
    /\ UNCHANGED notTok

\* The handler fetches and deletes the AuthCode; NotFound is answered with
\* invalid_grant.
TokenFetch ==
    /\ \E t \in Threads :
         /\ xpc[t] = "x_fetch"
         /\ LET r == FetchAndDelete(authCodes, xcode[t])
            IN /\ authCodes' = r.codes
               /\ IF r.found
                  THEN /\ xpc' = [xpc EXCEPT ![t] = "x_mint"]
                       /\ UNCHANGED xres
                  ELSE /\ xpc' = [xpc EXCEPT ![t] = "x_done"]
                       /\ xres' = [xres EXCEPT ![t] = "invalid_grant"]
    /\ UNCHANGED <<issued, succ, xcode>>
    /\ UNCHANGED notTok

\* redirect_uri and PKCE verify; the ID token is minted and the exchange
\* succeeds.
TokenMint ==
    /\ \E t \in Threads :
         /\ xpc[t] = "x_mint"
         /\ xpc' = [xpc EXCEPT ![t] = "x_done"]
         /\ xres' = [xres EXCEPT ![t] = "ok"]
         /\ succ' = [succ EXCEPT ![xcode[t]] = @ + 1]
    /\ UNCHANGED <<authCodes, issued, xcode>>
    /\ UNCHANGED notTok

\* The response is written.
TokenReturn ==
    /\ \E t \in Threads :
         /\ xpc[t] = "x_done"
         /\ xpc' = [xpc EXCEPT ![t] = "idle"]
         /\ xcode' = [xcode EXCEPT ![t] = NoCode]
         /\ xres' = [xres EXCEPT ![t] = ""]
    /\ UNCHANGED <<authCodes, issued, succ>>
    /\ UNCHANGED notTok

TokNext ==
    \/ Approve \/ GarbageCollect \/ TokenCall \/ TokenFetch \/ TokenMint \/ TokenReturn

(***************************************************************************)
(*          /token, refresh_token grant: rotation and replay               *)
(***************************************************************************)

MaxRefreshTime == 3     \* the refresh clock runs from 0 to MaxRefreshTime
MaxTokens == 4          \* token values generated, the first two included

\* The "small tolerance" within which a replayed obsolete token is accepted,
\* in clock ticks.
Tolerance == 1

RefreshIds == {"r1", "r2"}
NoRefresh == [token |-> 0, obsolete |-> 0, lastUsed |-> 0]
NoRefreshInput == [id |-> "none", tok |-> 0, at |-> 0]
NoRefreshOutput == [ok |-> FALSE, tok |-> 0, err |-> ""]

\* The obsolete token is accepted however long ago the rotation was.
AllowedToReuseAlways(lastUsed, tNow) == TRUE

\* last_used is within the tolerance of now.
AllowedToReuse(lastUsed, tNow) == tNow - lastUsed <= Tolerance

\* The refresh_token grant on the record found under the presented id (or
\* NoRefresh when there is none), as one optimistic update: the record left
\* in storage and the answer.
Refresh(rec, tok, tNow, newTok) ==
    IF rec = NoRefresh
    THEN [rec |-> NoRefresh,
          out |-> [ok |-> FALSE, tok |-> 0, err |-> "invalid_grant"]]
    ELSE IF tok = rec.token
    THEN [rec |-> [token |-> newTok, obsolete |-> rec.token, lastUsed |-> tNow],
          out |-> [ok |-> TRUE, tok |-> newTok, err |-> ""]]
    ELSE IF rec.obsolete # 0 /\ tok = rec.obsolete
    THEN IF AllowedToReuse(rec.lastUsed, tNow)
         THEN [rec |-> rec,
               out |-> [ok |-> TRUE, tok |-> rec.token, err |-> ""]]
         ELSE [rec |-> NoRefresh,
               out |-> [ok |-> FALSE, tok |-> 0, err |-> "invalid_grant"]]
    ELSE [rec |-> rec,
          out |-> [ok |-> FALSE, tok |-> 0, err |-> "invalid_grant"]]

\* Two token families, each issued with its first token by a code exchange
\* that asked for offline_access.
RefIdle ==
    /\ rnow = 0
    /\ refresh = [i \in RefreshIds |->
                    [token |-> IF i = "r1" THEN 1 ELSE 2, obsolete |-> 0, lastUsed |-> 0]]
    /\ rdead = [i \in RefreshIds |-> NoRefresh]
    /\ rnextTok = 3
    /\ rpc = "idle"
    /\ rin = NoRefreshInput
    /\ rbefore = NoRefresh
    /\ rout = NoRefreshOutput

\* Time passes.
RefreshTick ==
    /\ rnow < MaxRefreshTime
    /\ rnow' = rnow + 1
    /\ UNCHANGED <<refresh, rdead, rnextTok, rpc, rin, rbefore, rout>>
    /\ UNCHANGED notRef

\* A client posts grant_type=refresh_token with the opaque value id.tok, tok
\* being some token value that was once generated.
RefreshCall ==
    /\ rpc = "idle"
    /\ \E i \in RefreshIds, tok \in 1..(rnextTok - 1) :
         /\ (refresh[i] # NoRefresh /\ tok = refresh[i].token) => rnextTok <= MaxTokens
         /\ LET r == Refresh(refresh[i], tok, rnow, rnextTok)
            IN /\ rin' = [id |-> i, tok |-> tok, at |-> rnow]
               /\ rbefore' = refresh[i]
               /\ refresh' = [refresh EXCEPT ![i] = r.rec]
               /\ rdead' = IF refresh[i] # NoRefresh /\ r.rec = NoRefresh
                           THEN [rdead EXCEPT ![i] = refresh[i]]
                           ELSE rdead
               /\ rnextTok' = IF r.out.ok /\ r.out.tok = rnextTok
                              THEN rnextTok + 1 ELSE rnextTok
               /\ rout' = r.out
    /\ rpc' = "r_done"
    /\ UNCHANGED rnow
    /\ UNCHANGED notRef

\* The response is written.
RefreshReturn ==
    /\ rpc = "r_done"
    /\ rpc' = "idle"
    /\ rin' = NoRefreshInput
    /\ rbefore' = NoRefresh
    /\ rout' = NoRefreshOutput
    /\ UNCHANGED <<rnow, refresh, rdead, rnextTok>>
    /\ UNCHANGED notRef

RefNext == RefreshTick \/ RefreshCall \/ RefreshReturn

(***************************************************************************)
(*            The garbage collection worker (startGarbageCollection)       *)
(***************************************************************************)

MaxRuns == 3        \* GarbageCollect calls counted (the counters stop there)

\* What the worker logged for the last GarbageCollect call.
GcLogs == {"", "errorf", "infof"}

\* A count that stops at MaxRuns.
Counted(n) == IF n < MaxRuns THEN n + 1 ELSE n

\* Lines 424-428 with the error branch returning from the goroutine.
AfterCollectExitOnError(failed) == IF failed THEN "exited" ELSE "select"

\* Lines 424-428: whatever GarbageCollect returned, the body of the case ends
\* and the for loop goes round to the select again.
AfterCollect(failed) == "select"

\* Lines 424-428: what is logged for a result (err, r.AuthRequests, r.AuthCodes).
CollectLog(failed, nRequests, nCodes) ==
    IF failed THEN "errorf"
    ELSE IF nRequests > 0 \/ nCodes > 0 THEN "infof"
    ELSE ""

\* The select of lines 419-429 never takes the Done case.
SelectReadyIgnoringDone(cancelled, fired) ==
    IF fired THEN {"timer"} ELSE {}

\* The select of lines 419-429: the cases that can proceed. With both ready
\* the choice among them is Go's, one picked at random.
SelectReady(cancelled, fired) ==
    (IF cancelled THEN {"done"} ELSE {}) \cup (IF fired THEN {"timer"} ELSE {})

\* After newServer: the goroutine has been started and waits in its first
\* select, the timer of time.After(frequency) armed.
GcWorkerInit ==
    /\ gctx = FALSE
    /\ gpc = "select"
    /\ gtimer = FALSE
    /\ gruns = 0
    /\ gfails = 0
    /\ gafter = FALSE
    /\ glog = ""

\* The lifecycle context is cancelled.
CancelContext ==
    /\ ~gctx
    /\ gctx' = TRUE
    /\ UNCHANGED <<gpc, gtimer, gruns, gfails, gafter, glog>>
    /\ UNCHANGED notGcw

\* The timer of time.After(frequency) fires: its channel can be received
\* from.
TimerFires ==
    /\ gpc = "select"
    /\ ~gtimer
    /\ gtimer' = TRUE
    /\ UNCHANGED <<gctx, gpc, gruns, gfails, gafter, glog>>
    /\ UNCHANGED notGcw

\* Lines 420-421: case <-ctx.Done(): return
SelectDone ==
    /\ gpc = "select"
    /\ "done" \in SelectReady(gctx, gtimer)
    /\ gpc' = "exited"
    /\ UNCHANGED <<gctx, gtimer, gruns, gfails, gafter, glog>>
    /\ UNCHANGED notGcw

\* Lines 422-423: case <-time.After(frequency): s.storage.GarbageCollect(now())
\* is called.
SelectTimer ==
    /\ gpc = "select"
    /\ "timer" \in SelectReady(gctx, gtimer)
    /\ gpc' = "collect"
    /\ gtimer' = FALSE
    /\ gruns' = Counted(gruns)
    /\ gafter' = gctx
    /\ UNCHANGED <<gctx, gfails, glog>>
    /\ UNCHANGED notGcw

\* Lines 423-428: GarbageCollect returns, with an error or with its counts;
\* the worker logs and loops, arming a new timer.
CollectReturns ==
    /\ gpc = "collect"
    /\ \E failed \in BOOLEAN, nRequests \in 0..1, nCodes \in 0..1 :
         /\ gpc' = AfterCollect(failed)
         /\ glog' = CollectLog(failed, nRequests, nCodes)
         /\ gfails' = IF failed THEN Counted(gfails) ELSE gfails
    /\ UNCHANGED <<gctx, gtimer, gruns, gafter>>
    /\ UNCHANGED notGcw

GcWorkerNext ==
    \/ CancelContext \/ TimerFires \/ SelectDone \/ SelectTimer \/ CollectReturns

(***************************************************************************)
(*                 passwordDB.Refresh (the local connector)                *)
(***************************************************************************)

\* The names an identity may carry: those storage may hold and the one the
\* user had when the refresh token was issued.
IdentityUsernames == Usernames \cup {"annie"}

\* The identities Refresh may be called with.
Identities ==
    { [userID |-> u, username |-> n, email |-> e, emailVerified |-> v] :
        u \in UserIDs, n \in IdentityUsernames, e \in Emails, v \in BOOLEAN }

NoRefreshCall == [identity |-> EmptyIdentity, backendFails |-> FALSE]
NoRefreshResult == [identity |-> EmptyIdentity, err |-> ""]

\* passwordDB.Refresh without the comparison of the UserIDs (lines 366-368).
passwordDBRefreshIgnoringUserID(got, identity) ==
    IF got.err # ""
    THEN IF got.err = "ErrNotFound"
         THEN [identity |-> EmptyIdentity, err |-> "user not found"]
         ELSE [identity |-> EmptyIdentity, err |-> "get password"]
    ELSE [identity |-> [identity EXCEPT !.username = got.p.username], err |-> ""]

\* passwordDB.Refresh, given the result got of db.s.GetPassword(identity.Email).
passwordDBRefresh(got, identity) ==
    IF got.err # ""
    THEN IF got.err = "ErrNotFound"
         THEN [identity |-> EmptyIdentity, err |-> "user not found"]
         ELSE [identity |-> EmptyIdentity, err |-> "get password"]
    ELSE IF got.p.userID # identity.userID
    THEN [identity |-> EmptyIdentity, err |-> "user not found"]
    ELSE [identity |-> [identity EXCEPT !.username = got.p.username], err |-> ""]

PwRefreshIdle ==
    /\ fpc = "idle"
    /\ fin = NoRefreshCall
    /\ frec = NoPassword
    /\ fout = NoRefreshResult

\* A caller runs passwordDB.Refresh(ctx, scopes, identity).
PwRefreshCall ==
    /\ fpc = "idle"
    /\ \E id \in Identities, fails \in BOOLEAN :
         /\ fin' = [identity |-> id, backendFails |-> fails]
         /\ frec' = passwords[id.email]
         /\ fout' = passwordDBRefresh(GetPassword(passwords, id.email, fails), id)
    /\ fpc' = "refresh_done"
    /\ UNCHANGED notPwr

\* The caller has taken the result.
PwRefreshReturn ==
    /\ fpc = "refresh_done"
    /\ fpc' = "idle"
    /\ fin' = NoRefreshCall
    /\ frec' = NoPassword
    /\ fout' = NoRefreshResult
    /\ UNCHANGED notPwr

\* Storage is written to (PasswordWrite) between the calls of Refresh.
PwStorageWrite ==
    /\ fpc = "idle"
    /\ PasswordWrite

PwRefreshNext == PwStorageWrite \/ PwRefreshCall \/ PwRefreshReturn

(***************************************************************************)
(*                            Specifications                               *)
(***************************************************************************)

\* Each specification starts every component in its state after newServer
\* and lets one component run.
InitAll == HdrInit /\ ConnIdle /\ LoginIdle /\ KeysIdle /\ TokIdle /\ RefIdle /\ GcWorkerInit /\ PwRefreshIdle

SpecHeaders == InitAll /\ [][HdrNext]_vars
SpecConn == InitAll /\ [][ConnNext]_vars

SpecLogin == InitAll /\ [][LoginNext]_vars

SpecKeys == InitAll /\ [][KeysNext]_vars

SpecToken == InitAll /\ [][TokNext]_vars

SpecRefresh == InitAll /\ [][RefNext]_vars

SpecGcWorker == InitAll /\ [][GcWorkerNext]_vars

SpecPwRefresh == InitAll /\ [][PwRefreshNext]_vars

\* The timer fires when its interval has passed; the goroutine, once a case
\* of its select can proceed, is runnable and is run; a GarbageCollect call
\* returns.
FairSpecGcWorker ==
    /\ SpecGcWorker
    /\ WF_vars(TimerFires)
    /\ WF_vars(SelectDone \/ SelectTimer)
    /\ WF_vars(CollectReturns)

\* In addition, the select's choice among the cases that can proceed is
\* uniformly random: a case that can proceed at select after select is not
\* passed over for ever.
FairSelectSpecGcWorker == FairSpecGcWorker /\ SF_vars(SelectDone)

\* A goroutine that holds s.mu is runnable (Unlock never blocks), and the Go
\* scheduler runs every runnable goroutine eventually: the Unlock of the
\* holder, at line 520 or line 503, is taken.
FairSpecConn == SpecConn /\ WF_vars(GcUnlock \/ OcUnlock)

(***************************************************************************)
(*                               Claims                                    *)
(***************************************************************************)

\* C1: on the generic /callback route, when handleConnectorCallback is invoked
\* the request holds no header whose lower-cased name starts with "x-remote-",
\* and every other header is present with the values it arrived with.
C1_RemoteHeadersStripped ==
    (hPc = "handler" /\ hPath = "/callback") =>
        /\ \A k \in DOMAIN hHeader : ~HasPrefix(ToLower(k), XRemotePrefix)
        /\ \A k \in DOMAIN hOrig :
             ~HasPrefix(ToLower(k), XRemotePrefix) =>
                 (k \in DOMAIN hHeader /\ hHeader[k] = hOrig[k])
        /\ DOMAIN hHeader \subseteq DOMAIN hOrig

\* A /callback request that arrived with an X-Remote-* header and with another
\* header has reached the connector callback handler.
C1_Witness ==
    /\ hPc = "handler"
    /\ hPath = "/callback"
    /\ \E k \in DOMAIN hOrig : HasPrefix(ToLower(k), XRemotePrefix)
    /\ \E k \in DOMAIN hOrig : ~HasPrefix(ToLower(k), XRemotePrefix)

\* A storage record that OpenConnector can open: the local connector, or a
\* known type with a config that parses and whose Open succeeds.
Opens(rec) ==
    rec.typ = "local" \/ (rec.typ = "mockCallback" /\ rec.cfg = "ok")

\* What thread t's getConnector call found: no map entry for id, or one with a
\* resource version other than the storage record's.
Mismatch(t) == cconn[t] = NoEntry \/ cconn[t].rv # csc[t].rv

GetDone(t) == cpc[t] = "done" /\ cvia[t] = "get" /\ csc[t] # NoRecord

\* C2 as stated: a getConnector(id) call that finds the map entry missing or
\* of another resource version than the storage record opens the record and
\* replaces the map entry with the new instance, which carries the storage
\* record's resource version (and which it returns).
C2_Original ==
    \A t \in Threads :
        (GetDone(t) /\ Mismatch(t)) =>
            (cres[t].ok /\ cres[t].conn.rv = csc[t].rv)

\* C2 amended: such a call always calls OpenConnector on the storage record;
\* when that succeeds it stores in the map, and returns, a newly opened
\* instance carrying the record's resource version; when it fails the call
\* returns an error and the map is left as it was.
C2_ReopenOnVersionChange ==
    /\ [](\A t \in Threads :
            (GetDone(t) /\ Mismatch(t)) =>
                IF Opens(csc[t])
                THEN cres[t].ok /\ cres[t].conn = cnew[t] /\ cres[t].conn.rv = csc[t].rv
                ELSE ~cres[t].ok)
    /\ [][\A t \in Threads :
            /\ (cpc[t] = "gc_check" /\ cpc'[t] # "gc_check" /\ Mismatch(t))
                    => cpc'[t] = "oc_open"
            /\ (cvia[t] = "get" /\ cpc[t] = "oc_lock" /\ cpc'[t] # "oc_lock")
                    => /\ connectors'[cid[t]].rv = csc[t].rv
                       /\ connectors'[cid[t]] = cnew[t]
                       /\ csc[t].typ # "local" =>
                             /\ connectors'[cid[t]].inst # connectors[cid[t]].inst
                             /\ connectors'[cid[t]].inst # cconn[t].inst
            /\ (cvia[t] = "get" /\ cpc[t] = "oc_open" /\ cpc'[t] = "done")
                    => connectors' = connectors]_vars

\* A getConnector call found an entry of an older resource version, re-opened
\* the record, and the map now holds the instance it returned.
C2_Witness ==
    \E t \in Threads :
        /\ GetDone(t)
        /\ cconn[t] # NoEntry
        /\ cconn[t].rv # csc[t].rv
        /\ cres[t].ok
        /\ connectors[cid[t]] = cres[t].conn
        /\ connectors[cid[t]].rv = csc[t].rv

\* C9: an OpenConnector that fails (unknown type, config that does not parse,
\* Open error) returns an error and leaves the whole connector map unchanged;
\* a call for a record that opens succeeds whatever the other records hold.
C9_FailedOpenIsolated ==
    /\ [][\A t \in Threads :
            (cpc[t] = "oc_open" /\ ~Opens(csc[t]) /\ cpc'[t] # "oc_open")
                => /\ cpc'[t] = "done"
                   /\ ~cres'[t].ok
                   /\ connectors' = connectors]_vars
    /\ [](\A t \in Threads :
            (cpc[t] = "done" /\ csc[t] # NoRecord) =>
                (cres[t].ok <=> Opens(csc[t])))

\* OpenConnector has failed for one connector, whose earlier instance is still
\* in the map, and a getConnector call for another connector has succeeded.
C9_Witness ==
    \E t, u \in Threads :
        /\ cpc[t] = "done" /\ csc[t] # NoRecord /\ ~cres[t].ok
        /\ connectors[cid[t]] # NoEntry
        /\ cpc[u] = "done" /\ cvia[u] = "get" /\ cid[u] # cid[t] /\ cres[u].ok
        /\ ~Opens(store[cid[t]])

\* C10: s.mu is held only by a thread that has just read or written the
\* connector map and is about to unlock: never by a thread that is in
\* storage.GetConnector, in the opening of a connector, or that has returned;
\* and whenever it is held it is later free again.
C10_MutexOnlyAroundMap ==
    /\ [](\A t \in Threads : mu = t => cpc[t] \in {"gc_unlock", "oc_unlock"})
    /\ [](mu \in Threads \cup {NoThread})
    /\ (mu # NoThread) ~> (mu = NoThread)

\* One thread holds the mutex while the other is inside a blocking call.
C10_Witness ==
    \E t, u \in Threads :
        /\ mu = t
        /\ u # t
        /\ cpc[u] \in {"gc_get", "oc_open"}

\* The record storage holds for the email of the Login call just made.
LoginRecord == passwords[lin.email]
CostInRange(p) == p.hash.cost >= 4 /\ p.hash.cost <= 16
Denied == [identity |-> EmptyIdentity, ok |-> FALSE, err |-> ""]

\* C5: when the stored hash has a bcrypt cost outside [4, 16], Login returns a
\* non-nil error, an empty identity and ok = false, whether the password
\* presented is the right one or not.
C5_CostRejectedBeforeCompare ==
    (lpc = "login_done" /\ ~lin.backendFails /\ LoginRecord # NoPassword
        /\ ~CostInRange(LoginRecord))
    => (lout.err # "" /\ lout.identity = EmptyIdentity /\ ~lout.ok)

\* Login was called with the right password for a record whose hash cost is
\* above 16, and returned an error.
C5_Witness ==
    /\ lpc = "login_done"
    /\ ~lin.backendFails
    /\ LoginRecord # NoPassword
    /\ LoginRecord.hash.cost > 16
    /\ LoginRecord.hash.secret = lin.password
    /\ lout.err # ""

\* C6 as stated: ok = true only for an existing record with a cost in range
\* and a matching password, with the record's identity; an unknown email and a
\* wrong password both give (empty identity, false, nil); any other storage
\* error is returned as an error.
C6_Original ==
    lpc = "login_done" =>
        /\ lout.ok =>
             /\ ~lin.backendFails /\ LoginRecord # NoPassword
             /\ CostInRange(LoginRecord)
             /\ LoginRecord.hash.secret = lin.password
             /\ lout.identity = [userID |-> LoginRecord.userID,
                                 username |-> LoginRecord.username,
                                 email |-> LoginRecord.email, emailVerified |-> TRUE]
        /\ (~lin.backendFails /\ LoginRecord = NoPassword) => lout = Denied
        /\ (~lin.backendFails /\ LoginRecord # NoPassword
              /\ LoginRecord.hash.secret # lin.password) => lout = Denied
        /\ lin.backendFails => (lout.err # "" /\ ~lout.ok)

\* C6 amended: the wrong-password outcome equals the unknown-email outcome
\* when the record's hash cost is in range (out of range, C5's error comes
\* first); with a record in range and the right password Login succeeds.
C6_LoginOutcome ==
    lpc = "login_done" =>
        /\ lout.ok <=>
             /\ ~lin.backendFails /\ LoginRecord # NoPassword
             /\ CostInRange(LoginRecord)
             /\ LoginRecord.hash.secret = lin.password
        /\ lout.ok =>
             /\ lout.err = ""
             /\ lout.identity = [userID |-> LoginRecord.userID,
                                 username |-> LoginRecord.username,
                                 email |-> LoginRecord.email, emailVerified |-> TRUE]
        /\ (~lin.backendFails /\ LoginRecord = NoPassword) => lout = Denied
        /\ (~lin.backendFails /\ LoginRecord # NoPassword /\ CostInRange(LoginRecord)
              /\ LoginRecord.hash.secret # lin.password) => lout = Denied
        /\ lin.backendFails => (lout.err # "" /\ ~lout.ok /\ lout.identity = EmptyIdentity)

\* A wrong password against a record in range was answered exactly like an
\* unknown email would be.
C6_Witness ==
    /\ lpc = "login_done"
    /\ ~lin.backendFails
    /\ LoginRecord # NoPassword
    /\ CostInRange(LoginRecord)
    /\ LoginRecord.hash.secret # lin.password
    /\ lout = Denied
    /\ \E e \in Emails : passwords[e] = NoPassword

\* C3: GetKeys returns the remembered Keys only at a time before their
\* NextRotation; on a miss (nothing remembered, or now not before the
\* NextRotation) it returns the Keys read from storage; and it stores them in
\* the cache only when now() was before their NextRotation.
C3_CacheOnlyBeforeRotation ==
    /\ [](\A t \in Threads :
            /\ (kpc[t] = "k_ret" /\ khit[t]) =>
                  (kret[t] # NoKeys /\ ktk[t] < kret[t].nextRotation)
            /\ (kpc[t] = "k_ret" /\ ~khit[t] /\ ~kerr[t]) =>
                  (kret[t] # NoKeys /\ kret[t] = kread[t]))
    /\ [][\A t \in Threads :
            /\ (kpc[t] = "k_load" /\ kpc'[t] = "k_ret") =>
                  (kret'[t] = kcache /\ now < kcache.nextRotation)
            /\ (kpc[t] = "k_load" /\ kpc'[t] = "k_storage") =>
                  (kcache = NoKeys \/ now >= kcache.nextRotation)
            /\ (kpc[t] = "k_storage" /\ kpc'[t] = "k_check") => kread'[t] = skeys
            /\ (kpc[t] = "k_check" /\ kpc'[t] = "k_store") =>
                  (kgood'[t] <=> now < kread[t].nextRotation)]_vars
    /\ [][kcache' # kcache =>
            \E t \in Threads :
                kpc[t] = "k_store" /\ kgood[t] /\ kcache' = kread[t]]_vars

\* GetKeys missed a cache whose Keys are due for rotation, read from storage
\* Keys that are due as well, and is about to return them without storing.
C3_Witness ==
    \E t \in Threads :
        /\ kpc[t] = "k_store"
        /\ ~kgood[t]
        /\ kcache # NoKeys
        /\ now >= kcache.nextRotation

\* What a GetKeys call made now returns: the remembered Keys on a hit, else
\* the Keys in storage.
KeysNow == IF CacheHit(kcache, now) THEN kcache ELSE skeys

\* The issued token was signed at the time its signer was given the key.
SignedAtOnce == token # NoToken /\ token.tk = token.t

\* C4: the key of an ID token issued at t with expiry e = t +
\* id_tokens_valid_for is in the key set GetKeys returns at every time in
\* [t, e].
C4_KeyOverlap ==
    (SignedAtOnce /\ token.t <= now /\ now <= token.e) =>
        token.kid \in Kids(KeysNow)

\* The same over the half-open interval [t, e).
C4_KeyOverlapBeforeExpiry ==
    (SignedAtOnce /\ token.t <= now /\ now < token.e) =>
        token.kid \in Kids(KeysNow)

\* C7: for every AuthCode, at most one authorization_code exchange succeeds,
\* whatever the interleaving; the fetch takes the code out of storage in the
\* step that finds it, and an exchange that does not find the code, any
\* exchange after the successful one included, fails with invalid_grant.
C7_CodeSingleUse ==
    /\ [](\A c \in CodeIds : succ[c] <= 1)
    /\ [](\A t \in Threads : xpc[t] = "x_done" => xres[t] \in {"ok", "invalid_grant"})
    /\ [](\A c \in CodeIds : succ[c] = 1 => c \notin authCodes)
    /\ [][\A t \in Threads :
            (xpc[t] = "x_fetch" /\ xpc'[t] # "x_fetch") =>
                IF xcode[t] \in authCodes
                THEN xpc'[t] = "x_mint" /\ xcode[t] \notin authCodes'
                ELSE xpc'[t] = "x_done" /\ xres'[t] = "invalid_grant"]_vars
    /\ [][\A t \in Threads :
            (xpc[t] = "x_fetch" /\ xpc'[t] # "x_fetch" /\ succ[xcode[t]] >= 1) =>
                xres'[t] = "invalid_grant"]_vars

\* Two exchanges presented the same code: one succeeded, the other was
\* answered invalid_grant.
C7_Witness ==
    \E t, u \in Threads :
        /\ xpc[t] = "x_done" /\ xpc[u] = "x_done"
        /\ xcode[t] = xcode[u]
        /\ xres[t] = "ok"
        /\ xres[u] = "invalid_grant"
        /\ succ[xcode[t]] = 1

\* The refresh call just answered presented the token that was current before
\* the last rotation of its family.
ReplayedObsolete ==
    rpc = "r_done" /\ rbefore # NoRefresh /\ rbefore.obsolete # 0
        /\ rin.tok = rbefore.obsolete

C11_GcFailuresDoNotEscalate ==
    /\ [][(gpc = "collect" /\ gpc' # "collect") => gpc' = "select"]_vars
    /\ [][gpc' = "exited" => (gpc = "exited" \/ (gpc = "select" /\ gctx))]_vars
    /\ \A n \in 0..(MaxRuns - 1) :
          (gruns = n /\ gfails = n) ~> (gruns = n + 1 \/ gctx)
    /\ (gpc = "select" /\ ~gctx) ~> (gpc = "collect" \/ gctx)

\* Every call so far has failed, there were at least two, the context is not
\* cancelled and the next call is under way.
C11_Witness ==
    /\ gpc = "collect"
    /\ ~gctx
    /\ gfails >= 2
    /\ gruns = gfails + 1
    /\ glog = "errorf"

\* C12: the worker terminates only when the context is cancelled, and once it
\* is cancelled the worker does terminate (a GarbageCollect call under way
\* returning), and stays terminated.
C12_WorkerEndsOnCancel ==
    /\ [](gpc = "exited" => gctx)
    /\ [][gpc = "exited" => gpc' = "exited"]_vars
    /\ gctx ~> (gpc = "exited")

\* The worker made at least one GarbageCollect call, all of them started
\* before the cancellation, the context was cancelled and the worker has
\* terminated.
C12_Witness ==
    /\ gpc = "exited"
    /\ gctx
    /\ gruns >= 1
    /\ ~gafter

\* C19: no GarbageCollect call is started once the context is cancelled.
C19_NoCollectAfterCancel ==
    gpc = "collect" => ~gafter

\* Every call made so far is a getConnector call that has not yet handed its
\* result over: no call is forgotten and none was a direct OpenConnector.
OnlyGetCalls ==
    ncalls = Cardinality({ t \in Threads : cpc[t] # "idle" /\ cvia[t] = "get" })

\* C13: when concurrent getConnector(id) calls have all returned
\* successfully, the map entry for id carries a resource version at least as
\* new as every storage record any of them read: no call overwrote the entry
\* with an instance opened from an older record.
C13_NeverOverwrittenByOlder ==
    (OnlyGetCalls /\ \A u \in Threads : cpc[u] \in {"idle", "done"}) =>
        \A t \in Threads :
            (GetDone(t) /\ cres[t].ok) => connectors[cid[t]].rv >= csc[t].rv

\* C14: a successful getConnector call returns a Connector carrying the
\* resource version of the storage record this call read, whatever other
\* calls and storage writes interleave; a call whose storage.GetConnector
\* fails returns an error at once, the map and the mutex untouched.
C14_ReturnsVersionRead ==
    /\ [](\A t \in Threads :
            (cpc[t] = "done" /\ cvia[t] = "get" /\ cres[t].ok) =>
                (csc[t] # NoRecord /\ cres[t].conn.rv = csc[t].rv))
    /\ [][\A t \in Threads :
            (cpc[t] = "gc_get" /\ cpc'[t] # "gc_get" /\ csc'[t] = NoRecord) =>
                /\ cpc'[t] = "done"
                /\ ~cres'[t].ok
                /\ connectors' = connectors
                /\ mu' = mu]_vars
    /\ [](\A t \in Threads :
            (cpc[t] = "done" /\ cvia[t] = "get" /\ csc[t] = NoRecord) =>
                (~cres[t].ok /\ cconn[t] = NoEntry /\ cnew[t] = NoEntry))

\* A getConnector call has returned a Connector of the version it read while
\* storage and the map have since moved on to a newer version, and another
\* call has failed in storage.GetConnector.
C14_Witness ==
    \E t, u \in Threads :
        /\ GetDone(t) /\ cres[t].ok
        /\ store[cid[t]].rv > csc[t].rv
        /\ connectors[cid[t]].rv > csc[t].rv
        /\ cpc[u] = "done" /\ cvia[u] = "get" /\ csc[u] = NoRecord

\* What thread t's getConnector call found: a map entry of the resource
\* version of the storage record.
Matched(t) == cconn[t] # NoEntry /\ cconn[t].rv = csc[t].rv

\* C15 as stated: such a call opens nothing and returns the instance of the
\* map, so two lookups of the same storage record return the same instance.
C15_Original ==
    \A t, u \in Threads :
        (GetDone(t) /\ Matched(t) /\ GetDone(u) /\ Matched(u)
            /\ cid[t] = cid[u] /\ csc[t] = csc[u])
        => cres[t].conn = cres[u].conn

\* C15 amended: such a call opens nothing, changes nothing in the map and
\* returns the entry it read from the map under the mutex; the map is
\* replaced only by the write of an OpenConnector, and a lookup that reads
\* the map while it still holds what an earlier lookup returned gets that
\* same instance.
C15_MatchedLookupReadsOnly ==
    /\ [](\A t \in Threads :
            (GetDone(t) /\ Matched(t)) =>
                (cres[t].ok /\ cres[t].conn = cconn[t] /\ cnew[t] = NoEntry))
    /\ [][\A t \in Threads :
            (cpc[t] = "gc_lock" /\ cpc'[t] # "gc_lock") =>
                (cconn'[t] = connectors[cid[t]] /\ connectors' = connectors)]_vars
    /\ [][\A t \in Threads :
            (cpc[t] = "gc_check" /\ Matched(t) /\ cpc'[t] # "gc_check") =>
                (cpc'[t] = "done" /\ connectors' = connectors /\ nextInst' = nextInst)]_vars
    /\ [][connectors' # connectors =>
            \E t \in Threads : cpc[t] = "oc_lock" /\ cpc'[t] = "oc_unlock"]_vars
    /\ [][\A t, u \in Threads :
            (GetDone(t) /\ Matched(t) /\ connectors[cid[t]] = cres[t].conn
                /\ cid[u] = cid[t] /\ cpc[u] = "gc_lock" /\ cpc'[u] # "gc_lock")
            => cconn'[u] = cres[t].conn]_vars

\* Two lookups of the same record found the entry in the map and returned the
\* same instance.
C15_Witness ==
    \E t, u \in Threads :
        /\ t # u
        /\ GetDone(t) /\ Matched(t) /\ GetDone(u) /\ Matched(u)
        /\ cid[t] = cid[u]
        /\ cres[t].ok /\ cres[t].conn = cres[u].conn
        /\ cres[t].conn = connectors[cid[t]]

\* The call just answered found a record of the identity's UserID.
RefreshRecordMatches == frec # NoPassword /\ frec.userID = fin.identity.userID

\* C16 as stated: an error when there is no record for identity.Email or its
\* UserID differs; otherwise the input identity with the stored Username.
C16_Original ==
    fpc = "refresh_done" =>
        IF ~RefreshRecordMatches
        THEN fout.err # ""
        ELSE /\ fout.err = ""
             /\ fout.identity = [fin.identity EXCEPT !.username = frec.username]

\* C16 amended: an error, with an empty identity, when there is no record for
\* identity.Email, when its UserID differs or when storage fails otherwise;
\* in every other case the input identity with only Username replaced by the
\* stored one; and the call leaves storage as it is.
C16_RefreshOutcome ==
    /\ [](fpc = "refresh_done" =>
            IF ~RefreshRecordMatches \/ fin.backendFails
            THEN fout.err # "" /\ fout.identity = EmptyIdentity
            ELSE /\ fout.err = ""
                 /\ fout.identity.username = frec.username
                 /\ fout.identity.userID = fin.identity.userID
                 /\ fout.identity.email = fin.identity.email
                 /\ fout.identity.emailVerified = fin.identity.emailVerified)
    /\ [][fpc' # fpc => passwords' = passwords]_vars

\* Refresh was called for a user whose stored Username has changed, with an
\* unverified email, and returned the identity under the new name.
C16_Witness ==
    /\ fpc = "refresh_done"
    /\ RefreshRecordMatches
    /\ ~fin.backendFails
    /\ fin.identity.username # frec.username
    /\ ~fin.identity.emailVerified
    /\ fout.err = ""
    /\ fout.identity.username = frec.username

\* C17: when GetKeys misses the cache and the storage read fails, the call
\* returns the error with the value of the failed read (never the remembered
\* Keys, even when stale Keys are remembered) and leaves the cache slot as it
\* was; a call that misses the cache and whose storage read succeeds returns
\* the Keys storage held when it read them.
C17_StorageErrorPropagates ==
    /\ [](\A t \in Threads : (kpc[t] = "k_ret" /\ kerr[t]) => (~khit[t] /\ kret[t] = NoKeys))
    /\ [][\A t \in Threads : (kpc[t] = "k_storage" /\ kpc'[t] = "k_ret") =>
            (kerr'[t] /\ kcache' = kcache)]_vars
    /\ [][\A t \in Threads : (kpc[t] = "k_storage" /\ kpc'[t] = "k_check") =>
            (~kerr'[t] /\ kread'[t] = skeys)]_vars
    /\ [](\A t \in Threads : (kpc[t] = "k_ret" /\ ~kerr[t] /\ ~khit[t]) => kret[t] = kread[t])

\* A storage read failed while stale Keys were remembered, and the caller
\* holds the error; another call has since read storage successfully.
C17_Witness ==
    \E t, u \in Threads :
        /\ t # u
        /\ kpc[t] = "k_ret" /\ kerr[t]
        /\ kcache # NoKeys /\ ~CacheHit(kcache, now)
        /\ kpc[u] = "k_ret" /\ ~kerr[u] /\ ~khit[u] /\ kret[u] = skeys

\* C18: every cache hit returns Keys equal to what storage holds at the moment
\* of the hit, and the cache slot is never overwritten with an older key set
\* than the one it holds.
C18_CacheCoherent ==
    /\ [][\A t \in Threads : (kpc[t] = "k_load" /\ kpc'[t] = "k_ret") => kret'[t] = skeys]_vars
    /\ [][(kcache # NoKeys /\ kcache' # kcache) => kcache'.signing > kcache.signing]_vars

\* The first half of C18 alone: a cache hit returns what storage holds then.
C18_HitEqualsStorage ==
    [][\A t \in Threads : (kpc[t] = "k_load" /\ kpc'[t] = "k_ret") => kret'[t] = skeys]_vars

\* A call was answered from the cache after a rotation.
C18_Witness ==
    \E t \in Threads : kpc[t] = "k_ret" /\ khit[t] /\ kret[t].signing > 1

====
